---- MODULE Spec2Model ----
(***************************************************************************)
(* gqs: a durable job queue with at-least-once delivery.                   *)
(*                                                                         *)
(* The model covers the SQL backend (package sql): the jobs table, the     *)
(* Pusher, Puller, Observer and Cleaner statements, and the callers that   *)
(* hold job snapshots.  Every SQL statement executes atomically in the     *)
(* store; a Puller method reads time.Now() in the caller first and the     *)
(* statement runs later, so calls of different callers overlap.            *)
(*                                                                         *)
(* Spec is the storage API under arbitrary callers.  WorkerSpec is a       *)
(* Worker (package gqs) over the same store: the polling driver, the       *)
(* dispatch channel, the handler runners and the user handler, with the    *)
(* fairness of Go's scheduler.  BackoffSpec is backoffCounter.next over    *)
(* a range of BackoffConfigs.  LifeSpec is a Worker whose Start and Stop   *)
(* are called at any time, StopSpec one that is started and stopped once,  *)
(* with fairness, and GuardSpec the lifecycle of a Worker and a            *)
(* CleanWorker side by side.  FaultSpec is a Worker whose storage may      *)
(* fail a Pull, CancelSpec one whose Start context may be cancelled, and   *)
(* RaceSpec a Start taken statement by statement beside a Stop.            *)
(***************************************************************************)
EXTENDS Integers, Sequences, FiniteSets, TLC

\* ---------------------------------------------------------------- bounds
MaxTime == 1        \* the wall clock runs over 0..MaxTime
MaxAttempts == 3    \* a row is claimed at most MaxAttempts times
MaxOps == 4         \* a run makes at most MaxOps API calls
Horizon == 3        \* with a Worker the clock runs to Horizon, or to the next due job

\* ---------------------------------------------------------------- inputs
Ids == {1, 2}               \* message identifiers, in the order of their Push
Callers == {"w1", "w2"}     \* goroutines / processes that call the Puller
Locks == {0, 1}             \* lease durations passed to Pull / ExtendLock
Delays == {0, 1}            \* delays passed to Push, backoffs passed to Return
Batches == {1, 2}           \* batch sizes passed to Pull
Slots == {1, 2}             \* positions in a caller's jobs slice
Befores == {-1, 0}          \* cutoffs passed to Clean, -1 for a nil cutoff
Poller == "poller"          \* the Worker's polling driver (pullTask)
Runners == {"r1"}           \* the Worker's handler runners (Concurrency of them)
Procs == Callers \cup {Poller} \cup Runners
Work == {1}                 \* the messages pushed in a run with a Worker
Handlers == {"ok", "flaky", "fail", "kill", "panic"}   \* the MessageHandlers of a Worker
Starters == {1, 2}          \* the goroutines that call Start, once each
Stoppers == {1, 2}          \* the goroutines that call Stop, once each

\* ------------------------------------------------------------ job.Status
Unknown == 0
Pending == 1
Processing == 2
Done == 3
Dead == 4

\* a nil *time.Time / SQL NULL in locked_until
NULL == -1

VARIABLES
    now,     \* the wall clock read by time.Now()
    store,   \* the jobs table: a function from the ids of the rows to rows
    used,    \* ids that were pushed so far
    call,    \* call[c]: the Puller call caller c is in, or its last result
    snap,    \* snap[c]: the []*job.Job slice caller c holds
    ops,     \* the number of API calls made so far
    last,    \* the Push, Get or Clean call the last step made, if it made one
    lc,      \* lcBase.state of the Worker
    cfg,     \* the WorkerConfig the Worker was built with
    pt,      \* the polling driver: where it is in TimerTask.do / Worker.pull
    in,      \* WorkerPool.in, the dispatch channel
    rn,      \* rn[r]: where runner r is in WorkerPool.worker / Worker.handle
    calls,   \* calls[i]: how many times the handler was started on job i
    reclaimed, \* the jobs some Pull claimed while they were still Processing
    orph,    \* the handler goroutines that their runners have left behind
    life,    \* the contexts of the Worker's goroutines and its Stop call
    cw,      \* the CleanWorker: its lcBase.state, its task and its Stop call
    bk       \* a backoffCounter and what its next returned, attempt by attempt

vars == <<now, store, used, call, snap, ops, last,
          lc, cfg, pt, in, rn, calls, reclaimed, orph, life, bk, cw>>

\* the state of the Worker
wvars == <<lc, cfg, pt, in, rn, calls, reclaimed, orph, life, bk, cw>>

\* ------------------------------------------------------------- helpers
Min(a, b) == IF a <= b THEN a ELSE b

\* a caller that is in no call; err is the result of its last call
Idle(e) == [op |-> "idle", k |-> 0, now |-> 0, d |-> 0, batch |-> 0,
            done |-> FALSE, err |-> e]

InCall(o, n, t, dur, b) == [op |-> o, k |-> n, now |-> t, d |-> dur,
                            batch |-> b, done |-> FALSE, err |-> "none"]

\* a call that is one statement, as its caller sees it: the method, its two
\* arguments, and the count and the error it returned
Made(o, x, y, n, e) == [op |-> o, a |-> x, b |-> y, count |-> n, err |-> e]

\* the last step made no such call
NoCall == Made("none", 0, 0, 0, "none")

\* fromMessage that forgets the delay: NextRunAt = now
fromMessageNoDelay(i, t, delay) ==
    [id |-> i, createdAt |-> t, updatedAt |-> t, status |-> Pending,
     attempts |-> 0, lockedUntil |-> NULL, nextRunAt |-> t]

\* fromMessage: the row Push inserts
fromMessage(i, t, delay) ==
    [id |-> i, createdAt |-> t, updatedAt |-> t, status |-> Pending,
     attempts |-> 0, lockedUntil |-> NULL, nextRunAt |-> t + delay]

\* toJob: the snapshot built from a row
toJob(jm) ==
    [id |-> jm.id, createdAt |-> jm.createdAt, updatedAt |-> jm.updatedAt,
     status |-> jm.status, attempts |-> jm.attempts,
     lockedUntil |-> jm.lockedUntil, nextRunAt |-> jm.nextRunAt]

\* isAffected: the statement changed at least one row
isAffected(rows) == rows # 0

\* getAffected: the number of rows the statement changed
getAffected(rows) == rows

\* Eligible without the lease test: a Processing row is always claimable
EligibleIgnoringLease(row, t) ==
    /\ row.nextRunAt <= t
    /\ row.status \in {Pending, Processing}

\* Eligible without the next_run_at test
EligibleIgnoringNextRun(row, t) ==
    \/ row.status = Pending
    \/ row.status = Processing /\ row.lockedUntil # NULL /\ row.lockedUntil < t

\* Eligible for Pending rows only: an expired lease is never re-claimed
EligiblePendingOnly(row, t) ==
    /\ row.nextRunAt <= t
    /\ row.status = Pending

\* the WHERE clause of Pull's subquery; a NULL locked_until compares false
Eligible(row, t) ==
    /\ row.nextRunAt <= t
    /\ \/ row.status = Pending
       \/ row.status = Processing /\ row.lockedUntil # NULL
                                  /\ row.lockedUntil < t

\* ClaimRow without SET updated_at
ClaimRowStaleUpdatedAt(row, t, lock) ==
    [row EXCEPT !.status = Processing, !.attempts = @ + 1,
                !.lockedUntil = t + lock]

\* ClaimRow without SET attempts = attempts + 1
ClaimRowNoAttempt(row, t, lock) ==
    [row EXCEPT !.status = Processing, !.lockedUntil = t + lock,
                !.updatedAt = t]

\* the SET clause of Pull's UPDATE
ClaimRow(row, t, lock) ==
    [row EXCEPT !.status = Processing, !.attempts = @ + 1,
                !.lockedUntil = t + lock, !.updatedAt = t]

\* the sets of ids Pull's subquery can select: up to batch eligible rows,
\* ORDER BY next_run_at ASC, ties broken by the store
subQuery(st, t, batch) ==
    LET elig == {i \in DOMAIN st : Eligible(st[i], t)}
        k == Min(batch, Cardinality(elig))
    IN  {S \in SUBSET elig :
            /\ Cardinality(S) = k
            /\ \A s \in S, u \in elig \ S : st[s].nextRunAt <= st[u].nextRunAt}

\* the orders in which RETURNING can report the updated rows
Returning(S) ==
    {sq \in [1..Cardinality(S) -> S] :
        \A i, j \in 1..Cardinality(S) : i # j => sq[i] # sq[j]}

\* rows matched by WHERE id = ? AND status IN sts
Matched(i, sts) == IF i \in DOMAIN store /\ store[i].status \in sts THEN 1 ELSE 0

\* ------------------------------------------------------- Worker: set-up
\* lcBase.state
stopped == 0
started == 1

\* the WorkerConfig a Worker is built with
BatchSize == 1
Queue == 1
LockTimeout == 2

\* the zero BackoffConfig: MaxRetries = 0 retries without bound
ZeroBackoff == [MaxRetries |-> 0, InitialInterval |-> 0, MaxInterval |-> 0,
                Multiplier |-> 0, RandomizationFactor |-> 0]

\* the BackoffConfigs a Worker is built with, RandomizationFactor = 0
Backoffs ==
    {ZeroBackoff,
     [MaxRetries |-> 1, InitialInterval |-> 1, MaxInterval |-> 1, Multiplier |-> 1,
      RandomizationFactor |-> 0],
     [MaxRetries |-> 2, InitialInterval |-> 1, MaxInterval |-> 1, Multiplier |-> 1,
      RandomizationFactor |-> 0],
     [MaxRetries |-> 3, InitialInterval |-> 1, MaxInterval |-> 1, Multiplier |-> 1,
      RandomizationFactor |-> 0]}

\* NewWorker: the fields taken from the WorkerConfig (Concurrency is the
\* number of Runners)
NewWorker(h, bc) == [handler |-> h, batchSize |-> BatchSize, queue |-> Queue,
                     lock |-> LockTimeout, halfLock |-> LockTimeout \div 2,
                     backoff |-> bc]

\* what MessageHandler h returns on its n-th invocation: always nil; an
\* error the first time and nil after; always an error; always ErrKill; or
\* it panics
handler(h, n) ==
    CASE h = "ok" -> "nil"
      [] h = "flaky" -> IF n = 1 THEN "err" ELSE "nil"
      [] h = "fail" -> "err"
      [] h = "kill" -> "ErrKill"
      [] h = "panic" -> "panic"

\* the polling driver between two ticks, in Pull, and dispatching job k
Driver(p, n) == [pc |-> p, k |-> n]

\* a handler runner: pc is where it is in WorkerPool.worker; h is where the
\* goroutine that do started is ("spawned", "running" in the handler, or
\* "returned": errCh holds the value) and res what the handler returns;
\* timer is when the lease timer fires; err is the result of handleOrExtend
Runner(p, rs, ph, tm, e) == [pc |-> p, res |-> rs, h |-> ph, timer |-> tm, err |-> e]

\* a runner that is not running a job
Free(p) == Runner(p, "none", "none", 0, "none")

\* a goroutine of do whose handleOrExtend has returned without it
Orphan(i, ph, rs) == [id |-> i, h |-> ph, res |-> rs]

\* the contexts and the Stop call of a Worker: task and pool say whether
\* the context of pullTask and of the pool is cancelled; stop is where the
\* Stop call that won tryStop is, ret what the last such call returned,
\* ran whether a Start has succeeded, sc and tc the callers that have made
\* their Start and their Stop call, par whether the context that was
\* passed to Start has been cancelled by its owner, and init where a Start
\* call that has passed tryStart is ("pool" before pool.Start, "task"
\* before pullTask.Start), and held, while a Stop call is at work, the
\* deliveries whose handler was executing when it passed tryStop
Life(t, p, sp, rt, rd, s, u) ==
    [task |-> t, pool |-> p, stop |-> sp, ret |-> rt, ran |-> rd, sc |-> s, tc |-> u,
     par |-> FALSE, init |-> "none", held |-> {}]

\* a CleanWorker: lc is its lcBase.state, task where its TimerTask is, ctx
\* whether the context of the task is cancelled, stop where the Stop call
\* that won tryStop is, sc and tc the callers that have made their Start
\* and their Stop call
Cleaner(cc, l, t, x, sp, s, u) ==
    [cfg |-> cc, lc |-> l, task |-> t, ctx |-> x, stop |-> sp, sc |-> s, tc |-> u]

\* NewCleanWorker: the fields taken from the CleanConfig
NewCleanWorker(st, bf, dl) == [status |-> st, before |-> bf, delta |-> dl]

\* ---------------------------------------------------------------- Init
\* no row, no call in flight, a Worker that was built and not started;
\* made are the callers of Start and of Stop that make no call
Built(made) ==
    /\ now = 0
    /\ ops = 0
    /\ store = <<>>
    /\ used = {}
    /\ call = [c \in Procs |-> Idle("none")]
    /\ snap = [c \in Procs |-> <<>>]
    /\ last = NoCall
    /\ lc = stopped
    /\ pt = Driver("off", 0)
    /\ in = <<>>
    /\ rn = [r \in Runners |-> Free("off")]
    /\ calls = [i \in Ids |-> 0]
    /\ reclaimed = {}
    /\ orph = <<>>
    /\ life = Life(FALSE, FALSE, "none", "none", FALSE, made, made)
    /\ cw = Cleaner(NewCleanWorker(Done, FALSE, 0), stopped, "off", FALSE, "none",
                    made, made)

Init ==
    /\ Built({})
    /\ bk = [bc |-> ZeroBackoff, out |-> <<>>]
    /\ cfg = NewWorker("ok", ZeroBackoff)

\* ------------------------------------------------------------- the clock
Tick ==
    /\ now < MaxTime
    /\ now' = now + 1
    /\ UNCHANGED <<store, used, call, snap, ops>>

\* ---------------------------------------------------------------- Pusher
\* Push: insert the row built by fromMessage; the id is a fresh uuid
Push(i, delay) ==
    /\ ops < MaxOps /\ ops' = ops + 1
    /\ i \notin used /\ \A j \in Ids \ used : i <= j
    /\ store' = (i :> fromMessage(i, now, delay)) @@ store
    /\ used' = used \cup {i}
    /\ last' = Made("Push", i, delay, 0, "nil")
    /\ UNCHANGED <<now, call, snap>>

\* -------------------------------------------------------------- Observer
\* Get: a snapshot of the row; (nil, nil) when there is no such row, which
\* leaves the caller with no job
Get(c, i) ==
    /\ ops < MaxOps /\ ops' = ops + 1
    /\ call[c].op = "idle"
    /\ snap' = [snap EXCEPT ![c] = IF i \in DOMAIN store
                                    THEN <<toJob(store[i])>>
                                    ELSE <<>>]
    /\ last' = Made("Get", i, 0, 0, "nil")
    /\ UNCHANGED <<now, store, used, call>>

\* ---------------------------------------------------------------- Puller
\* Pull, up to the statement: now := time.Now(); var jobs []*job.Job
CallPull(c, batch, lock) ==
    /\ ops < MaxOps /\ ops' = ops + 1
    /\ call[c].op = "idle"
    /\ call' = [call EXCEPT ![c] = InCall("Pull", 0, now, lock, batch)]
    /\ snap' = [snap EXCEPT ![c] = <<>>]
    /\ UNCHANGED <<now, store, used>>

\* Pull's UPDATE ... WHERE id IN (subquery) RETURNING *, one atomic statement
\* whose rows are scanned into jobs
Pull(c) ==
    /\ call[c].op = "Pull" /\ ~call[c].done
    /\ \E S \in subQuery(store, call[c].now, call[c].batch) :
       \E sq \in Returning(S) :
        /\ \A i \in S : store[i].attempts < MaxAttempts
        /\ store' = [i \in DOMAIN store |->
                        IF i \in S THEN ClaimRow(store[i], call[c].now, call[c].d)
                                   ELSE store[i]]
        /\ snap' = [snap EXCEPT ![c] = [n \in 1..Cardinality(S) |->
                                           toJob(store'[sq[n]])]]
        /\ call' = [call EXCEPT ![c].done = TRUE, ![c].err = "nil"]
    /\ UNCHANGED <<now, used, ops>>

\* Pull returns jobs to the caller
PullReturn(c) ==
    /\ call[c].op = "Pull" /\ call[c].done
    /\ call' = [call EXCEPT ![c] = Idle(call[c].err)]
    /\ UNCHANGED <<now, store, used, snap, ops>>

\* ExtendLock, up to the statement: now := time.Now(); newLock := now.Add(lock)
CallExtendLock(c, k, lock) ==
    /\ ops < MaxOps /\ ops' = ops + 1
    /\ call[c].op = "idle"
    /\ k \in DOMAIN snap[c]
    /\ call' = [call EXCEPT ![c] = InCall("ExtendLock", k, now, lock, 0)]
    /\ UNCHANGED <<now, store, used, snap>>

\* ExtendWhere that also accepts Done rows
ExtendWhereDone == {Processing, Done}

\* the statuses ExtendLock's WHERE clause accepts
ExtendWhere == {Processing}

\* the SET clause of ExtendLock's UPDATE
ExtendRow(row, t, lock) ==
    [row EXCEPT !.lockedUntil = t + lock, !.updatedAt = t]

\* ExtendLock's refresh of the caller's job
ExtendJob(jb, t, lock) ==
    [jb EXCEPT !.updatedAt = t, !.lockedUntil = t + lock, !.status = Processing]

\* ExtendLock's UPDATE, and ErrLockLost when no row is affected
ExtendLock(c) ==
    LET k == call[c].k
        i == snap[c][k].id
    IN  /\ call[c].op = "ExtendLock"
        /\ IF isAffected(Matched(i, ExtendWhere))
           THEN /\ store' = [store EXCEPT ![i] = ExtendRow(@, call[c].now, call[c].d)]
                /\ snap' = [snap EXCEPT ![c][k] = ExtendJob(@, call[c].now, call[c].d)]
                /\ call' = [call EXCEPT ![c] = Idle("nil")]
           ELSE /\ call' = [call EXCEPT ![c] = Idle("ErrLockLost")]
                /\ UNCHANGED <<store, snap>>
        /\ UNCHANGED <<now, used, ops>>

\* Complete, up to the statement: now := time.Now()
CallComplete(c, k) ==
    /\ ops < MaxOps /\ ops' = ops + 1
    /\ call[c].op = "idle"
    /\ k \in DOMAIN snap[c]
    /\ call' = [call EXCEPT ![c] = InCall("Complete", k, now, 0, 0)]
    /\ UNCHANGED <<now, store, used, snap>>

\* CompleteWhere that also accepts Pending rows
CompleteWhereLoose == {Pending, Processing}

\* the statuses Complete's WHERE clause accepts
CompleteWhere == {Processing}

\* the SET clause of Complete's UPDATE
CompleteRow(row, t) ==
    [row EXCEPT !.status = Done, !.lockedUntil = NULL, !.updatedAt = t]

\* Complete's update of the caller's job
CompleteJob(jb, t) ==
    [jb EXCEPT !.status = Done, !.lockedUntil = NULL, !.updatedAt = t]

\* Complete's UPDATE, and ErrCompleteFailed when no row is affected
Complete(c) ==
    LET k == call[c].k
        i == snap[c][k].id
    IN  /\ call[c].op = "Complete"
        /\ IF isAffected(Matched(i, CompleteWhere))
           THEN /\ store' = [store EXCEPT ![i] = CompleteRow(@, call[c].now)]
                /\ snap' = [snap EXCEPT ![c][k] = CompleteJob(@, call[c].now)]
                /\ call' = [call EXCEPT ![c] = Idle("nil")]
           ELSE /\ call' = [call EXCEPT ![c] = Idle("ErrCompleteFailed")]
                /\ UNCHANGED <<store, snap>>
        /\ UNCHANGED <<now, used, ops>>

\* Return, up to the statement: now := time.Now(); nextRun := now.Add(backoff)
CallReturn(c, k, backoff) ==
    /\ ops < MaxOps /\ ops' = ops + 1
    /\ call[c].op = "idle"
    /\ k \in DOMAIN snap[c]
    /\ call' = [call EXCEPT ![c] = InCall("Return", k, now, backoff, 0)]
    /\ UNCHANGED <<now, store, used, snap>>

\* ReturnWhere that also accepts Pending rows
ReturnWherePending == {Pending, Processing}

\* the statuses Return's WHERE clause accepts
ReturnWhere == {Processing}

\* ReturnRow without SET status = Pending
ReturnRowStillProcessing(row, t, backoff) ==
    [row EXCEPT !.nextRunAt = t + backoff, !.lockedUntil = NULL, !.updatedAt = t]

\* ReturnRow without SET locked_until = NULL
ReturnRowKeepLock(row, t, backoff) ==
    [row EXCEPT !.status = Pending, !.nextRunAt = t + backoff, !.updatedAt = t]

\* ReturnRow that forgets the backoff: next_run_at = now
ReturnRowNoBackoff(row, t, backoff) ==
    [row EXCEPT !.status = Pending, !.nextRunAt = t,
                !.lockedUntil = NULL, !.updatedAt = t]

\* the SET clause of Return's UPDATE
ReturnRow(row, t, backoff) ==
    [row EXCEPT !.status = Pending, !.nextRunAt = t + backoff,
                !.lockedUntil = NULL, !.updatedAt = t]

\* Return's update of the caller's job
ReturnJob(jb, t, backoff) ==
    [jb EXCEPT !.status = Pending, !.nextRunAt = t + backoff,
               !.lockedUntil = NULL, !.updatedAt = t]

\* Return's UPDATE, and ErrJobLost when no row is affected
Return(c) ==
    LET k == call[c].k
        i == snap[c][k].id
    IN  /\ call[c].op = "Return"
        /\ IF isAffected(Matched(i, ReturnWhere))
           THEN /\ store' = [store EXCEPT ![i] = ReturnRow(@, call[c].now, call[c].d)]
                /\ snap' = [snap EXCEPT ![c][k] = ReturnJob(@, call[c].now, call[c].d)]
                /\ call' = [call EXCEPT ![c] = Idle("nil")]
           ELSE /\ call' = [call EXCEPT ![c] = Idle("ErrJobLost")]
                /\ UNCHANGED <<store, snap>>
        /\ UNCHANGED <<now, used, ops>>

\* Kill, up to the statement: now := time.Now()
CallKill(c, k) ==
    /\ ops < MaxOps /\ ops' = ops + 1
    /\ call[c].op = "idle"
    /\ k \in DOMAIN snap[c]
    /\ call' = [call EXCEPT ![c] = InCall("Kill", k, now, 0, 0)]
    /\ UNCHANGED <<now, store, used, snap>>

\* KillWhere without the status filter
KillWhereAny == {Pending, Processing, Done, Dead}

\* KillWhere for Processing rows only
KillWhereProcessingOnly == {Processing}

\* the statuses Kill's WHERE clause accepts
KillWhere == {Pending, Processing}

\* the SET clause of Kill's UPDATE
KillRow(row, t) ==
    [row EXCEPT !.status = Dead, !.lockedUntil = NULL, !.updatedAt = t]

\* Kill's update of the caller's job
KillJob(jb, t) ==
    [jb EXCEPT !.status = Dead, !.lockedUntil = NULL, !.updatedAt = t]

\* Kill's UPDATE, and ErrJobLost when no row is affected
Kill(c) ==
    LET k == call[c].k
        i == snap[c][k].id
    IN  /\ call[c].op = "Kill"
        /\ IF isAffected(Matched(i, KillWhere))
           THEN /\ store' = [store EXCEPT ![i] = KillRow(@, call[c].now)]
                /\ snap' = [snap EXCEPT ![c][k] = KillJob(@, call[c].now)]
                /\ call' = [call EXCEPT ![c] = Idle("nil")]
           ELSE /\ call' = [call EXCEPT ![c] = Idle("ErrJobLost")]
                /\ UNCHANGED <<store, snap>>
        /\ UNCHANGED <<now, used, ops>>

\* --------------------------------------------------------------- Cleaner
\* CleanMatch whose Unknown case has no status filter
CleanMatchNoStatus(st, status, before) ==
    {i \in DOMAIN st :
        /\ status # 0 => st[i].status = status
        /\ before # NULL => st[i].updatedAt <= before}

\* CleanMatch without the updated_at filter
CleanMatchNoCutoff(st, status, before) ==
    {i \in DOMAIN st :
        IF status # 0 THEN st[i].status = status
                      ELSE st[i].status \in {Done, Dead}}

\* the rows Clean's DELETE matches; before = NULL is a nil *time.Time
CleanMatch(st, status, before) ==
    {i \in DOMAIN st :
        /\ IF status # 0 THEN st[i].status = status
                         ELSE st[i].status \in {Done, Dead}
        /\ before # NULL => st[i].updatedAt <= before}

\* Clean: (0, ErrBadStatus) for a non-terminal status, else the DELETE and
\* the number of rows it removed
Clean(status, before) ==
    /\ ops < MaxOps /\ ops' = ops + 1
    /\ IF status # 0 /\ status # Dead /\ status # Done
       THEN /\ UNCHANGED store
            /\ last' = Made("Clean", status, before, 0, "ErrBadStatus")
       ELSE LET del == CleanMatch(store, status, before)
            IN  /\ store' = [i \in DOMAIN store \ del |-> store[i]]
                /\ last' = Made("Clean", status, before,
                                getAffected(Cardinality(del)), "nil")
    /\ UNCHANGED <<now, used, call, snap>>

\* the callers are interchangeable: w1 is the one that makes the first call
Joined == IF call["w1"] = Idle("none") /\ snap["w1"] = <<>> THEN {"w1"} ELSE Callers

\* a step of the storage API that is no Push, Get or Clean and leaves the
\* Worker alone
Quiet == last' = NoCall /\ UNCHANGED wvars

Next ==
    \/ Tick /\ Quiet
    \/ \E i \in Ids, delay \in Delays : Push(i, delay) /\ UNCHANGED wvars
    \/ \E c \in Joined, i \in Ids : Get(c, i) /\ UNCHANGED wvars
    \/ \E c \in Joined, batch \in Batches, lock \in Locks :
            CallPull(c, batch, lock) /\ Quiet
    \/ \E c \in Joined : Pull(c) /\ Quiet
    \/ \E c \in Joined : PullReturn(c) /\ Quiet
    \/ \E c \in Joined, k \in Slots, lock \in Locks :
            CallExtendLock(c, k, lock) /\ Quiet
    \/ \E c \in Joined : ExtendLock(c) /\ Quiet
    \/ \E c \in Joined, k \in Slots : CallComplete(c, k) /\ Quiet
    \/ \E c \in Joined : Complete(c) /\ Quiet
    \/ \E c \in Joined, k \in Slots, backoff \in Delays :
            CallReturn(c, k, backoff) /\ Quiet
    \/ \E c \in Joined : Return(c) /\ Quiet
    \/ \E c \in Joined, k \in Slots : CallKill(c, k) /\ Quiet
    \/ \E c \in Joined : Kill(c) /\ Quiet
    \/ \E status \in Unknown..Dead, before \in Befores : Clean(status, before)
            /\ UNCHANGED wvars

Spec == Init /\ [][Next]_vars

\* ---------------------------------------------------------------- Worker
\* math.Pow for whole exponents
RECURSIVE Pow(_, _)
Pow(x, y) == IF y <= 0 THEN 1 ELSE x * Pow(x, y - 1)

\* next that stops one attempt early
nextEarly(bc, attempt) ==
    IF bc.MaxRetries > 0 /\ attempt >= bc.MaxRetries
    THEN [delay |-> 0, ok |-> FALSE]
    ELSE [delay |-> Min(bc.InitialInterval * Pow(bc.Multiplier, attempt - 1),
                        bc.MaxInterval),
          ok |-> TRUE]

\* next that forgets the interval
nextNoDelay(bc, attempt) ==
    IF bc.MaxRetries > 0 /\ attempt > bc.MaxRetries
    THEN [delay |-> 0, ok |-> FALSE]
    ELSE [delay |-> 0, ok |-> TRUE]

\* backoffCounter.next: the delay before the retry after the attempt-th run,
\* or ok = FALSE when the retries are used up
next(bc, attempt) ==
    IF bc.MaxRetries > 0 /\ attempt > bc.MaxRetries
    THEN [delay |-> 0, ok |-> FALSE]
    ELSE [delay |-> Min(bc.InitialInterval * Pow(bc.Multiplier, attempt - 1),
                        bc.MaxInterval),
          ok |-> TRUE]

\* the whole ticks rand.Float64() * (maxExp - minExp) can come to
Draws(bc, attempt) ==
    LET delta == bc.RandomizationFactor * next(bc, attempt).delay
    IN  IF bc.RandomizationFactor > 0 /\ delta > 0 THEN 0..(2 * delta - 1) ELSE {0}

\* nextJitter that stops one attempt early
nextJitterEarly(bc, attempt, rnd) ==
    IF bc.MaxRetries > 0 /\ attempt >= bc.MaxRetries
    THEN [delay |-> 0, ok |-> FALSE]
    ELSE next(bc, attempt)

\* nextJitter that does not clamp to MaxInterval
nextJitterNoClamp(bc, attempt, rnd) ==
    IF ~next(bc, attempt).ok
    THEN next(bc, attempt)
    ELSE [delay |-> bc.InitialInterval * Pow(bc.Multiplier, attempt - 1),
          ok |-> TRUE]

\* backoffCounter.next with its randomization: with RandomizationFactor > 0
\* the delay is drawn from [exp - delta, exp + delta), rnd above exp - delta
nextJitter(bc, attempt, rnd) ==
    LET nx == next(bc, attempt)
        delta == bc.RandomizationFactor * nx.delay
    IN  IF nx.ok /\ bc.RandomizationFactor > 0
        THEN [delay |-> (nx.delay - delta) + rnd, ok |-> TRUE]
        ELSE nx

\* outcome that returns the job whatever the handler said
outcomeAlwaysRetry(bc, err, attempts) ==
    IF err = "ErrLockLost" THEN [op |-> "none", d |-> 0]
    ELSE IF ~next(bc, attempts).ok THEN [op |-> "Kill", d |-> 0]
    ELSE [op |-> "Return", d |-> next(bc, attempts).delay]

\* Worker.handle: the Puller call that follows the result of handleOrExtend
outcome(bc, err, attempts) ==
    IF err = "nil" THEN [op |-> "Complete", d |-> 0]
    ELSE IF err = "ErrLockLost" THEN [op |-> "none", d |-> 0]
    ELSE IF ~next(bc, attempts).ok THEN [op |-> "Kill", d |-> 0]
    ELSE [op |-> "Return", d |-> next(bc, attempts).delay]

\* a step of the Worker that is no Push, Get or Clean
Calm == last' = NoCall /\ UNCHANGED <<bk, life, cw>>

\* such a step that leaves the handler goroutines left behind alone
Kept == Calm /\ UNCHANGED orph

\* the process has ended on a panic
Crashed == pt.pc = "crashed"

\* tryStart that does not look at the state
tryStartNoCheck(state) == [state |-> started, err |-> "nil"]

\* lcBase.tryStart: CompareAndSwap(stopped, started)
tryStart(state) ==
    IF state = stopped THEN [state |-> started, err |-> "nil"]
                       ELSE [state |-> state, err |-> "ErrDoubleStarted"]

\* lcBase.tryStop, up to df(): CompareAndSwap(started, stopped)
tryStop(state) ==
    IF state = started THEN [state |-> stopped, err |-> "nil"]
                       ELSE [state |-> state, err |-> "ErrDoubleStopped"]

\* a Stop call is between its tryStop and its return, or goroutines whose
\* context it has cancelled are still there
Stopping ==
    \/ life.stop # "none"
    \/ life.task /\ pt.pc # "exit"
    \/ life.pool /\ \E r \in Runners : rn[r].pc # "exit"

\* the callers are interchangeable: they make their calls in order
Turn(c, made, all) == c \notin made /\ \A d \in all \ made : c <= d

\* Worker.Start: tryStart, pool.Start (a new context, the channel and the
\* runners), pullTask.Start (a new context and the driver, whose first
\* tick is due at once), as one step, which is what a run sees in which no
\* Stop call comes between them (StartTry, StartPool and StartTask are the
\* three apart); a Start is taken when no Stop is still at work
Start(c) ==
    /\ Turn(c, life.sc, Starters)
    /\ tryStart(lc).err = "nil"
    /\ ~Stopping /\ ~Crashed
    /\ lc' = tryStart(lc).state
    /\ in' = <<>>
    /\ rn' = [r \in Runners |-> Free("recv")]
    /\ pt' = Driver("tick", 0)
    /\ life' = Life(FALSE, FALSE, "none", "none", TRUE, life.sc \cup {c}, life.tc)
    /\ last' = Made("Start", 0, 0, 0, "nil")
    /\ UNCHANGED <<now, store, used, call, snap, ops, cfg, calls, reclaimed, orph, bk, cw>>

\* Worker.Start on a Worker that tryStart refuses
StartAgain(c) ==
    /\ Turn(c, life.sc, Starters)
    /\ tryStart(lc).err # "nil"
    /\ ~Crashed
    /\ life' = [life EXCEPT !.sc = @ \cup {c}]
    /\ last' = Made("Start", 0, 0, 0, tryStart(lc).err)
    /\ UNCHANGED <<now, store, used, call, snap, ops, lc, cfg, pt, in, rn, calls,
                   reclaimed, orph, bk, cw>>

\* the Worker holds a copy of job i: in a Pull's result that is still
\* being dispatched, in the channel, or in a runner
AtWorker(i) ==
    \/ pt.pc \in {"pull", "push"} /\ \E n \in DOMAIN snap[Poller] : snap[Poller][n].id = i
    \/ \E n \in DOMAIN in : in[n].id = i
    \/ \E r \in Runners : rn[r].pc \in {"select", "extend", "handle", "final"}
                              /\ snap[r][1].id = i

\* the clock of a run with a Worker: it runs to Horizon, and on while a
\* Pending job waits for its next_run_at or a Processing job that the
\* Worker holds no copy of waits for the end of its lease
WTick ==
    /\ \/ now < Horizon
       \/ \E i \in DOMAIN store : store[i].status = Pending /\ store[i].nextRunAt > now
       \/ \E i \in DOMAIN store : /\ store[i].status = Processing
                                    /\ store[i].lockedUntil >= now
                                    /\ ~AtWorker(i)
    /\ now' = now + 1
    /\ last' = NoCall
    /\ UNCHANGED <<store, used, call, snap, ops>>
    /\ UNCHANGED wvars

\* Worker.pull on a tick of pullTask: puller.Pull(batchSize, lock) up to
\* the statement
WorkerPull ==
    /\ pt.pc = "tick"
    /\ call' = [call EXCEPT ![Poller] = InCall("Pull", 0, now, cfg.lock, cfg.batchSize)]
    /\ snap' = [snap EXCEPT ![Poller] = <<>>]
    /\ pt' = Driver("pull", 0)
    /\ Kept
    /\ UNCHANGED <<now, store, used, ops, lc, cfg, in, rn, calls, reclaimed>>

\* a statement that is run with a cancelled context fails before it
\* reaches the store
Canceled(c) ==
    /\ call' = [call EXCEPT ![c] = IF call[c].op = "Pull"
                                    THEN [@ EXCEPT !.done = TRUE, !.err = "canceled"]
                                    ELSE Idle("canceled")]
    /\ UNCHANGED <<now, store, used, snap, ops>>

\* the driver's Pull statement
WorkerPullExec ==
    /\ pt.pc = "pull" /\ ~call[Poller].done
    /\ IF life.task THEN Canceled(Poller) ELSE Pull(Poller)
    /\ reclaimed' = reclaimed \cup
                        {i \in DOMAIN store :
                            /\ store[i].status = Processing
                            /\ \E n \in DOMAIN snap'[Poller] : snap'[Poller][n].id = i}
    /\ Kept
    /\ UNCHANGED <<lc, cfg, pt, in, rn, calls>>

\* WorkerPullDone after which a Pull that failed ends the driver
WorkerPullDoneFatal ==
    /\ pt.pc = "pull"
    /\ PullReturn(Poller)
    /\ pt' = IF call[Poller].err # "nil" THEN Driver("exit", 0)
             ELSE IF snap[Poller] = <<>> THEN Driver("tick", 0) ELSE Driver("push", 1)
    /\ Kept
    /\ UNCHANGED <<lc, cfg, in, rn, calls, reclaimed>>

\* Pull returns to Worker.pull, which starts to range over the jobs
WorkerPullDone ==
    /\ pt.pc = "pull"
    /\ PullReturn(Poller)
    /\ pt' = IF snap[Poller] = <<>> THEN Driver("tick", 0) ELSE Driver("push", 1)
    /\ Kept
    /\ UNCHANGED <<lc, cfg, in, rn, calls, reclaimed>>

\* PoolPush into a channel without a capacity
PoolPushUnbounded ==
    /\ pt.pc = "push"
    /\ in' = Append(in, snap[Poller][pt.k])
    /\ pt' = IF pt.k < Len(snap[Poller]) THEN Driver("push", pt.k + 1)
                                         ELSE Driver("tick", 0)
    /\ Kept
    /\ UNCHANGED <<now, store, used, call, snap, ops, lc, cfg, rn, calls, reclaimed>>

\* WorkerPool.Push: the send on the dispatch channel, which blocks while
\* the channel is full
PoolPush ==
    /\ pt.pc = "push"
    /\ Len(in) < cfg.queue
    /\ in' = Append(in, snap[Poller][pt.k])
    /\ pt' = IF pt.k < Len(snap[Poller]) THEN Driver("push", pt.k + 1)
                                         ELSE Driver("tick", 0)
    /\ Kept
    /\ UNCHANGED <<now, store, used, call, snap, ops, lc, cfg, rn, calls, reclaimed>>

\* WorkerPool.worker receives a job and handleOrExtend starts a goroutine
\* for the handler (do) and the lease timer
PoolWorker(r) ==
    /\ rn[r].pc = "recv"
    /\ in # <<>>
    /\ rn' = [rn EXCEPT ![r] = Runner("select", "none", "spawned",
                                      now + cfg.halfLock, "none")]
    /\ snap' = [snap EXCEPT ![r] = <<Head(in)>>]
    /\ in' = Tail(in)
    /\ Kept
    /\ UNCHANGED <<now, store, used, call, ops, lc, cfg, pt, calls, reclaimed>>

\* the goroutine of do calls the handler; res is what this invocation is
\* going to return
HandlerBegin(r) ==
    /\ rn[r].pc \in {"select", "extend"} /\ rn[r].h = "spawned"
    /\ calls' = [calls EXCEPT ![snap[r][1].id] = @ + 1]
    /\ rn' = [rn EXCEPT ![r].h = "running",
                        ![r].res = handler(cfg.handler, calls'[snap[r][1].id])]
    /\ Kept
    /\ UNCHANGED <<now, store, used, call, snap, ops, lc, cfg, pt, in, reclaimed>>

\* a panic in a goroutine that has no recover ends the process: every
\* goroutine is gone, the store stays
Crash ==
    /\ pt' = Driver("crashed", 0)
    /\ rn' = [r \in Runners |-> Free("crashed")]
    /\ orph' = <<>>
    /\ in' = <<>>

\* the handler returns, ret <- handler(ctx, msg), or panics in the goroutine
\* of do
HandlerReturn(r) ==
    /\ rn[r].pc \in {"select", "extend"} /\ rn[r].h = "running"
    /\ IF rn[r].res = "panic"
       THEN Crash
       ELSE /\ rn' = [rn EXCEPT ![r].h = "returned"]
            /\ UNCHANGED <<pt, in, orph>>
    /\ Calm
    /\ UNCHANGED <<now, store, used, call, snap, ops, lc, cfg, calls, reclaimed>>

\* a goroutine of do that was left behind calls the handler
OrphanBegin(k) ==
    /\ k \in DOMAIN orph /\ orph[k].h = "spawned"
    /\ calls' = [calls EXCEPT ![orph[k].id] = @ + 1]
    /\ orph' = [orph EXCEPT ![k].h = "running",
                            ![k].res = handler(cfg.handler, calls'[orph[k].id])]
    /\ Calm
    /\ UNCHANGED <<now, store, used, call, snap, ops, lc, cfg, pt, in, rn, reclaimed>>

\* the handler of a goroutine that was left behind returns, into errCh that
\* nobody reads, or panics
OrphanReturn(k) ==
    /\ k \in DOMAIN orph /\ orph[k].h = "running"
    /\ IF orph[k].res = "panic"
       THEN Crash
       ELSE /\ orph' = [n \in 1..(Len(orph) - 1) |->
                            IF n < k THEN orph[n] ELSE orph[n + 1]]
            /\ UNCHANGED <<pt, in, rn>>
    /\ Calm
    /\ UNCHANGED <<now, store, used, call, snap, ops, lc, cfg, calls, reclaimed>>

\* handleOrExtend, case err := <-errCh
ErrChRecv(r) ==
    /\ rn[r].pc = "select" /\ rn[r].h = "returned"
    /\ rn' = [rn EXCEPT ![r] = Runner("handle", "none", "none", 0, rn[r].res)]
    /\ Kept
    /\ UNCHANGED <<now, store, used, call, snap, ops, lc, cfg, pt, in, calls, reclaimed>>

\* handleOrExtend, case <-timer.C: puller.ExtendLock(jb, lock) up to the
\* statement
TimerFire(r) ==
    /\ rn[r].pc = "select" /\ now >= rn[r].timer
    /\ call' = [call EXCEPT ![r] = InCall("ExtendLock", 1, now, cfg.lock, 0)]
    /\ rn' = [rn EXCEPT ![r].pc = "extend"]
    /\ Kept
    /\ UNCHANGED <<now, store, used, snap, ops, lc, cfg, pt, in, calls, reclaimed>>

\* the ExtendLock statement: the timer is reset, or the handler's context
\* is cancelled and handleOrExtend returns the error
ExtendDone(r) ==
    /\ rn[r].pc = "extend"
    /\ IF life.pool THEN Canceled(r) ELSE ExtendLock(r)
    /\ rn' = [rn EXCEPT ![r] =
                IF call'[r].err = "nil"
                THEN [@ EXCEPT !.pc = "select", !.timer = now + cfg.halfLock]
                ELSE Runner("handle", "none", "none", 0, call'[r].err)]
    /\ orph' = IF call'[r].err # "nil" /\ rn[r].h \in {"spawned", "running"}
               THEN Append(orph, Orphan(snap[r][1].id, rn[r].h, rn[r].res))
               ELSE orph
    /\ Calm
    /\ UNCHANGED <<lc, cfg, pt, in, calls, reclaimed>>

\* Worker.handle after handleOrExtend: Complete, Return or Kill up to the
\* statement, or nothing when the lock was lost
handle(r) ==
    /\ rn[r].pc = "handle"
    /\ LET o == outcome(cfg.backoff, rn[r].err, snap[r][1].attempts)
       IN  IF o.op = "none"
           THEN /\ rn' = [rn EXCEPT ![r] = Free("recv")]
                /\ UNCHANGED call
           ELSE /\ rn' = [rn EXCEPT ![r].pc = "final"]
                /\ call' = [call EXCEPT ![r] = InCall(o.op, 1, now, o.d, 0)]
    /\ Kept
    /\ UNCHANGED <<now, store, used, snap, ops, lc, cfg, pt, in, calls, reclaimed>>

\* handleDone that goes through Worker.handle again when the statement
\* has failed
handleDoneRetry(r) ==
    /\ rn[r].pc = "final"
    /\ IF life.pool
       THEN Canceled(r)
       ELSE \/ Complete(r)
            \/ Return(r)
            \/ Kill(r)
    /\ rn' = [rn EXCEPT ![r] = IF call'[r].err = "nil"
                                THEN Free("recv")
                                ELSE [@ EXCEPT !.pc = "handle"]]
    /\ Kept
    /\ UNCHANGED <<lc, cfg, pt, in, calls, reclaimed>>

\* the Complete, Return or Kill statement; its error is logged and the
\* runner goes back to the channel
handleDone(r) ==
    /\ rn[r].pc = "final"
    /\ IF life.pool
       THEN Canceled(r)
       ELSE \/ Complete(r)
            \/ Return(r)
            \/ Kill(r)
    /\ rn' = [rn EXCEPT ![r] = Free("recv")]
    /\ Kept
    /\ UNCHANGED <<lc, cfg, pt, in, calls, reclaimed>>

\* TimerTask.do, case <-ctx.Done(): the driver ends and closes done
TaskExit ==
    /\ pt.pc = "tick" /\ life.task
    /\ pt' = Driver("exit", 0)
    /\ Kept
    /\ UNCHANGED <<now, store, used, call, snap, ops, lc, cfg, in, rn, calls, reclaimed>>

\* WorkerPool.Push, case <-wp.ctx.Done(): Worker.pull gives up the rest of
\* the batch
PushAbort ==
    /\ pt.pc = "push" /\ life.pool
    /\ pt' = Driver("tick", 0)
    /\ Kept
    /\ UNCHANGED <<now, store, used, call, snap, ops, lc, cfg, in, rn, calls, reclaimed>>

\* WorkerPool.worker, case <-ctx.Done(): the runner ends, wg.Done()
WorkerExit(r) ==
    /\ rn[r].pc = "recv" /\ life.pool
    /\ rn' = [rn EXCEPT ![r] = Free("exit")]
    /\ Kept
    /\ UNCHANGED <<now, store, used, call, snap, ops, lc, cfg, pt, in, calls, reclaimed>>

\* Worker.Stop: tryStop lets the call through to doStop
Stop(c) ==
    /\ Turn(c, life.tc, Stoppers)
    /\ tryStop(lc).err = "nil"
    /\ ~Crashed
    /\ lc' = tryStop(lc).state
    /\ life' = [life EXCEPT !.stop = "task", !.tc = @ \cup {c},
                            !.held = {<<r, snap[r][1].attempts>> :
                                          r \in {x \in Runners : rn[x].h = "running"}}]
    /\ last' = NoCall
    /\ UNCHANGED <<now, store, used, call, snap, ops, cfg, pt, in, rn, calls,
                   reclaimed, orph, bk, cw>>

\* Worker.Stop on a Worker that tryStop refuses
StopAgain(c) ==
    /\ Turn(c, life.tc, Stoppers)
    /\ tryStop(lc).err # "nil"
    /\ ~Crashed
    /\ life' = [life EXCEPT !.tc = @ \cup {c}]
    /\ last' = Made("Stop", 0, 0, 0, tryStop(lc).err)
    /\ UNCHANGED <<now, store, used, call, snap, ops, lc, cfg, pt, in, rn, calls,
                   reclaimed, orph, bk, cw>>

\* doStop: pullTask.Stop() cancels the driver's context; t.cancel is nil
\* until the first pullTask.Start, and the call of a nil func panics
StopTask ==
    /\ life.stop = "task"
    /\ IF pt.pc = "off"
       THEN /\ Crash
            /\ life' = [life EXCEPT !.stop = "none", !.ret = "panic", !.held = {}]
       ELSE /\ life' = [life EXCEPT !.task = TRUE, !.stop = "pool"]
            /\ UNCHANGED <<pt, in, rn, orph>>
    /\ last' = NoCall
    /\ UNCHANGED <<now, store, used, call, snap, ops, lc, cfg, calls, reclaimed, bk, cw>>

\* doStop: pool.Stop() cancels the context of the pool
StopPool ==
    /\ life.stop = "pool"
    /\ life' = [life EXCEPT !.pool = TRUE, !.stop = "wait"]
    /\ last' = NoCall
    /\ UNCHANGED <<now, store, used, call, snap, ops, lc, cfg, pt, in, rn, calls,
                   reclaimed, orph, bk, cw>>

\* Combine that waits for first only
CombineFirst == pt.pc = "exit"

\* Combine(first, second) is closed: the driver has closed done and
\* wg.Wait() has returned
Combine == pt.pc = "exit" /\ \A r \in Runners : rn[r].pc = "exit"

\* tryStop, case <-done
StopDone ==
    /\ life.stop = "wait" /\ Combine
    /\ life' = [life EXCEPT !.stop = "none", !.ret = "nil", !.held = {}]
    /\ last' = Made("Stop", 0, 0, 0, "nil")
    /\ UNCHANGED <<now, store, used, call, snap, ops, lc, cfg, pt, in, rn, calls,
                   reclaimed, orph, bk, cw>>

\* tryStop, case <-timer.C
StopTimeout ==
    /\ life.stop = "wait"
    /\ life' = [life EXCEPT !.stop = "none", !.ret = "ErrStopTimeout", !.held = {}]
    /\ last' = Made("Stop", 0, 0, 0, "ErrStopTimeout")
    /\ UNCHANGED <<now, store, used, call, snap, ops, lc, cfg, pt, in, rn, calls,
                   reclaimed, orph, bk, cw>>

\* the steps of the polling driver, and of runner r
DriverStep == WorkerPull \/ WorkerPullExec \/ WorkerPullDone \/ PoolPush

RunnerStep(r) ==
    PoolWorker(r) \/ ErrChRecv(r) \/ TimerFire(r) \/ ExtendDone(r)
        \/ handle(r) \/ handleDone(r)

WorkerInit ==
    /\ Built({})
    /\ bk = [bc |-> ZeroBackoff, out |-> <<>>]
    /\ cfg \in {NewWorker(h, bc) : h \in Handlers, bc \in Backoffs}

WorkerNext ==
    \/ \E i \in Work, delay \in Delays : Push(i, delay) /\ UNCHANGED wvars
    \/ \E c \in Starters : Start(c)
    \/ WTick
    \/ WorkerPull
    \/ WorkerPullExec
    \/ WorkerPullDone
    \/ PoolPush
    \/ \E r \in Runners : PoolWorker(r)
    \/ \E r \in Runners : HandlerBegin(r)
    \/ \E r \in Runners : HandlerReturn(r)
    \/ \E k \in 1..MaxAttempts : OrphanBegin(k)
    \/ \E k \in 1..MaxAttempts : OrphanReturn(k)
    \/ \E r \in Runners : ErrChRecv(r)
    \/ \E r \in Runners : TimerFire(r)
    \/ \E r \in Runners : ExtendDone(r)
    \/ \E r \in Runners : handle(r)
    \/ \E r \in Runners : handleDone(r)

\* ----------------------------------------------------- backoffCounter
\* the BackoffConfigs next is tried on
BackoffInputs ==
    [MaxRetries : 0..MaxAttempts, InitialInterval : -1..2, MaxInterval : 0..3,
     Multiplier : 0..2, RandomizationFactor : 0..1]

BackoffInit ==
    /\ Built({})
    /\ cfg = NewWorker("ok", ZeroBackoff)
    /\ bk \in [bc : BackoffInputs, out : {<<>>}]

\* next(attempt) for attempt = 1, 2, ..., as a job's retries ask for it
CallNext ==
    /\ Len(bk.out) <= MaxAttempts
    /\ \E rnd \in Draws(bk.bc, Len(bk.out) + 1) :
          bk' = [bk EXCEPT !.out = Append(@, nextJitter(bk.bc, Len(bk.out) + 1, rnd))]
    /\ UNCHANGED <<now, store, used, call, snap, ops, last,
                   lc, cfg, pt, in, rn, calls, reclaimed, orph, life, cw>>

BackoffNext == CallNext

BackoffSpec == BackoffInit /\ [][BackoffNext]_vars

\* a Worker under Go's scheduler: time passes, and a goroutine that can
\* take a step takes one; a handler returns
WorkerSpec ==
    /\ WorkerInit
    /\ [][WorkerNext]_vars
    /\ WF_vars(WTick)
    /\ WF_vars(DriverStep)
    /\ \A r \in Runners : WF_vars(RunnerStep(r))
    /\ \A r \in Runners : WF_vars(HandlerBegin(r) \/ HandlerReturn(r))
    /\ WF_vars(\E k \in 1..MaxAttempts : OrphanBegin(k) \/ OrphanReturn(k))

\* ----------------------------------------------------------- CleanWorker
\* what a step of the CleanWorker leaves alone
kept == <<now, used, call, snap, ops, lc, cfg, pt, in, rn, calls, reclaimed,
          orph, life, bk>>

\* beforeStamp: nil, or time.Now() less delta
beforeStamp(cc, t) == IF ~cc.before THEN NULL ELSE t - cc.delta

\* a Stop call of the CleanWorker is between its tryStop and its return, or
\* the task it has cancelled is still there
CleanStopping == cw.stop # "none" \/ (cw.ctx /\ cw.task # "exit")

\* CleanWorker.Start: tryStart and task.Start (a new context and the task,
\* whose first tick is due at once)
CleanStart(c) ==
    /\ Turn(c, cw.sc, Starters)
    /\ tryStart(cw.lc).err = "nil"
    /\ ~CleanStopping /\ ~Crashed
    /\ cw' = [cw EXCEPT !.lc = tryStart(cw.lc).state, !.task = "tick",
                         !.ctx = FALSE, !.sc = @ \cup {c}]
    /\ last' = Made("CleanWorker.Start", 0, 0, 0, "nil")
    /\ UNCHANGED store /\ UNCHANGED kept

\* CleanWorker.Start on a CleanWorker that tryStart refuses
CleanStartAgain(c) ==
    /\ Turn(c, cw.sc, Starters)
    /\ tryStart(cw.lc).err # "nil"
    /\ ~Crashed
    /\ cw' = [cw EXCEPT !.sc = @ \cup {c}]
    /\ last' = Made("CleanWorker.Start", 0, 0, 0, tryStart(cw.lc).err)
    /\ UNCHANGED store /\ UNCHANGED kept

\* CleanWorker.clean on a tick of the task: cleaner.Clean(ctx, status,
\* beforeStamp()), whose count and error are logged
clean ==
    /\ cw.task = "tick" /\ ~Crashed
    /\ LET status == cw.cfg.status
           before == beforeStamp(cw.cfg, now)
           del == CleanMatch(store, status, before)
       IN  IF cw.ctx
           THEN /\ UNCHANGED store
                /\ last' = Made("Clean", status, before, 0, "canceled")
           ELSE IF status # 0 /\ status # Dead /\ status # Done
           THEN /\ UNCHANGED store
                /\ last' = Made("Clean", status, before, 0, "ErrBadStatus")
           ELSE /\ store' = [i \in DOMAIN store \ del |-> store[i]]
                /\ last' = Made("Clean", status, before,
                                getAffected(Cardinality(del)), "nil")
    /\ UNCHANGED cw /\ UNCHANGED kept

\* TimerTask.do of the CleanWorker, case <-ctx.Done()
CleanExit ==
    /\ cw.task = "tick" /\ cw.ctx /\ ~Crashed
    /\ cw' = [cw EXCEPT !.task = "exit"]
    /\ last' = NoCall
    /\ UNCHANGED store /\ UNCHANGED kept

\* CleanWorker.Stop: tryStop lets the call through to task.Stop
CleanStop(c) ==
    /\ Turn(c, cw.tc, Stoppers)
    /\ tryStop(cw.lc).err = "nil"
    /\ ~Crashed
    /\ cw' = [cw EXCEPT !.lc = tryStop(cw.lc).state, !.stop = "task", !.tc = @ \cup {c}]
    /\ last' = NoCall
    /\ UNCHANGED store /\ UNCHANGED kept

\* CleanWorker.Stop on a CleanWorker that tryStop refuses
CleanStopAgain(c) ==
    /\ Turn(c, cw.tc, Stoppers)
    /\ tryStop(cw.lc).err # "nil"
    /\ ~Crashed
    /\ cw' = [cw EXCEPT !.tc = @ \cup {c}]
    /\ last' = Made("CleanWorker.Stop", 0, 0, 0, tryStop(cw.lc).err)
    /\ UNCHANGED store /\ UNCHANGED kept

\* task.Stop() cancels the context of the task
CleanStopTask ==
    /\ cw.stop = "task" /\ ~Crashed
    /\ cw' = [cw EXCEPT !.ctx = TRUE, !.stop = "wait"]
    /\ last' = NoCall
    /\ UNCHANGED store /\ UNCHANGED kept

\* tryStop, case <-done: the task has closed done
CleanStopDone ==
    /\ cw.stop = "wait" /\ cw.task = "exit" /\ ~Crashed
    /\ cw' = [cw EXCEPT !.stop = "none"]
    /\ last' = Made("CleanWorker.Stop", 0, 0, 0, "nil")
    /\ UNCHANGED store /\ UNCHANGED kept

\* tryStop, case <-timer.C
CleanStopTimeout ==
    /\ cw.stop = "wait" /\ ~Crashed
    /\ cw' = [cw EXCEPT !.stop = "none"]
    /\ last' = Made("CleanWorker.Stop", 0, 0, 0, "ErrStopTimeout")
    /\ UNCHANGED store /\ UNCHANGED kept

\* ------------------------------------------------------ Start and Stop
LifeInit ==
    /\ Built({})
    /\ bk = [bc |-> ZeroBackoff, out |-> <<>>]
    /\ cfg = NewWorker("ok", ZeroBackoff)

\* what a Stop call does after tryStop, and what the goroutines do once
\* their context is cancelled
Shutdown ==
    \/ StopTask
    \/ StopPool
    \/ StopDone
    \/ StopTimeout
    \/ TaskExit
    \/ PushAbort
    \/ \E r \in Runners : WorkerExit(r)

\* a Worker whose Start and Stop are called at any time by the Starters
\* and the Stoppers
LifeNext ==
    \/ WorkerNext
    \/ \E c \in Starters : StartAgain(c)
    \/ \E c \in Stoppers : Stop(c)
    \/ \E c \in Stoppers : StopAgain(c)
    \/ Shutdown

LifeSpec == LifeInit /\ [][LifeNext]_vars

\* a Worker and a CleanWorker over a queue that stays empty, with the
\* Start and Stop calls of the Starters and the Stoppers on each
GuardNext ==
    \/ \E c \in Starters : Start(c)
    \/ \E c \in Starters : StartAgain(c)
    \/ \E c \in Stoppers : Stop(c)
    \/ \E c \in Stoppers : StopAgain(c)
    \/ StopTask
    \/ StopPool
    \/ StopDone
    \/ StopTimeout
    \/ WorkerPull
    \/ WorkerPullExec
    \/ WorkerPullDone
    \/ TaskExit
    \/ \E r \in Runners : WorkerExit(r)
    \/ \E c \in Starters : CleanStart(c)
    \/ \E c \in Starters : CleanStartAgain(c)
    \/ \E c \in Stoppers : CleanStop(c)
    \/ \E c \in Stoppers : CleanStopAgain(c)
    \/ CleanStopTask
    \/ CleanStopDone
    \/ CleanStopTimeout
    \/ clean
    \/ CleanExit

GuardSpec == LifeInit /\ [][GuardNext]_vars

\* a Worker with one Start call and one Stop call
StopInit ==
    /\ Built({2})
    /\ bk = [bc |-> ZeroBackoff, out |-> <<>>]
    /\ cfg = NewWorker("ok", ZeroBackoff)

StopNext ==
    \/ WorkerNext
    \/ \E c \in Stoppers : Stop(c)
    \/ Shutdown

\* Go's scheduler, and Go's select, which takes each of the cases that are
\* ready with a probability above zero: a cancelled driver or runner that
\* comes back to its select again and again ends
StopSpec ==
    /\ StopInit
    /\ [][StopNext]_vars
    /\ WF_vars(WTick)
    /\ WF_vars(DriverStep \/ PushAbort)
    /\ SF_vars(TaskExit)
    /\ \A r \in Runners : WF_vars(RunnerStep(r))
    /\ \A r \in Runners : SF_vars(WorkerExit(r))
    /\ \A r \in Runners : WF_vars(HandlerBegin(r) \/ HandlerReturn(r))
    /\ WF_vars(\E k \in 1..MaxAttempts : OrphanBegin(k) \/ OrphanReturn(k))
    /\ WF_vars(StopTask \/ StopPool)

\* ------------------------------------------------------- reading a step
\* the step in which caller c's Pull statement executes
PullStep(c) ==
    /\ call[c].op = "Pull" /\ ~call[c].done
    /\ call'[c].op = "Pull" /\ call'[c].done

\* the step in which caller c's ExtendLock / Complete / Return / Kill
\* statement executes and the call returns
ExecStep(c, o) == call[c].op = o /\ call'[c].op = "idle"

\* caller c's Pull statement has executed and the call has not returned yet
Executed(c) == call[c].op = "Pull" /\ call[c].done

\* the ids of the jobs a caller holds
Held(jobs) == {jobs[n].id : n \in DOMAIN jobs}

\* the id of the job a single-row call of caller c is about
Target(c) == snap[c][call[c].k].id

\* the eligibility predicate of the specification, written out
SpecEligible(row, t) ==
    /\ row.nextRunAt <= t
    /\ \/ row.status = Pending
       \/ row.status = Processing /\ row.lockedUntil # NULL /\ row.lockedUntil < t

\* a row as a Pull claim left it: claimed at updatedAt, lease not yet renewed
FreshClaim(row) ==
    /\ row.status = Processing
    /\ row.nextRunAt <= row.updatedAt
    /\ \E lock \in Locks : row.lockedUntil = row.updatedAt + lock

\* ------------------------------------------------------------------- C1
\* C1 as stated: of the Pull calls that are in flight together, no two
\* return the same row.
C1_AtMostOneConcurrentClaim ==
    \A p, q \in Callers :
        (p # q /\ Executed(p) /\ Executed(q)) => Held(snap[p]) \cap Held(snap[q]) = {}

\* C1 as amended: when a Pull statement claims a row that another Pull call,
\* still in flight, has already claimed, the row had become eligible again
\* in between: it is Pending (returned), or its lease is strictly before the
\* second call's now; a row left as the first claim wrote it is claimed again
\* only when that claim's now + lock < the second call's now, and the second
\* call returns a later version of the row (Attempts higher).
C1_ConcurrentClaimOnlyAfterExpiry ==
    [][\A p, q \in Callers :
        (p # q /\ Executed(p) /\ PullStep(q)) =>
            \A n \in DOMAIN snap[p], m \in DOMAIN snap'[q] :
                snap[p][n].id = snap'[q][m].id =>
                    LET j == snap[p][n]
                        row == store[j.id]
                    IN  /\ \/ row.status = Pending
                           \/ row.status = Processing /\ row.lockedUntil < call[q].now
                        /\ toJob(row) = j => j.lockedUntil < call[q].now
                        /\ snap'[q][m].attempts > j.attempts]_vars

\* two Pull calls in flight together hold the same row, the second one
\* claimed after the first one's lease had expired
C1_Witness ==
    \E p, q \in Callers :
        /\ p # q /\ Executed(p) /\ Executed(q)
        /\ \E n \in DOMAIN snap[p], m \in DOMAIN snap[q] :
            /\ snap[p][n].id = snap[q][m].id
            /\ snap[p][n].lockedUntil < call[q].now
            /\ snap[q][m].attempts = snap[p][n].attempts + 1

\* ------------------------------------------------------------------- C2
\* C2: every row a Pull statement returns or changes was eligible when the
\* statement ran, for the now of that call: NextRunAt <= now and Pending, or
\* Processing with LockedUntil < now; so no delayed, leased, Done or Dead row
\* is claimed.
C2_PullClaimsOnlyEligible ==
    [][\A c \in Callers : PullStep(c) =>
        \A i \in DOMAIN store :
            (i \in Held(snap'[c]) \/ i \notin DOMAIN store' \/ store'[i] # store[i]) =>
                /\ store[i].nextRunAt <= call[c].now
                /\ \/ store[i].status = Pending
                   \/ /\ store[i].status = Processing
                      /\ store[i].lockedUntil # NULL
                      /\ store[i].lockedUntil < call[c].now]_vars

\* a Pull has claimed one row and has left alone a row that is not due yet
C2_Witness ==
    \E c \in Callers :
        /\ Executed(c) /\ Len(snap[c]) > 0
        /\ \E i \in DOMAIN store \ Held(snap[c]) :
            store[i].status = Pending /\ store[i].nextRunAt > call[c].now

\* ------------------------------------------------------------------- C3
\* C3: every job a Pull statement returns is the row after the update:
\* Processing, Attempts one more than before, LockedUntil = now + lock,
\* UpdatedAt = now, the other fields as before, and the row holds the same
\* values; the other rows are unchanged; with no eligible row the list is
\* empty and the error nil.
C3_PullReturnsPostMutation ==
    [][\A c \in Callers : PullStep(c) =>
        /\ call'[c].err = "nil"
        /\ DOMAIN store' = DOMAIN store
        /\ \A n \in DOMAIN snap'[c] :
            LET j == snap'[c][n]
            IN  /\ j.id \in DOMAIN store
                /\ j.status = Processing
                /\ j.attempts = store[j.id].attempts + 1
                /\ j.lockedUntil = call[c].now + call[c].d
                /\ j.updatedAt = call[c].now
                /\ j.nextRunAt = store[j.id].nextRunAt
                /\ j.createdAt = store[j.id].createdAt
                /\ store'[j.id] = j
                /\ \A m \in DOMAIN snap'[c] : m # n => snap'[c][m].id # j.id
        /\ \A i \in DOMAIN store \ Held(snap'[c]) : store'[i] = store[i]
        /\ (\A i \in DOMAIN store : ~SpecEligible(store[i], call[c].now)) =>
                snap'[c] = <<>>]_vars

\* a Pull has returned one of two rows
C3_Witness ==
    \E c \in Callers :
        /\ Executed(c) /\ Len(snap[c]) = 1
        /\ Cardinality(DOMAIN store) = 2
        /\ store[snap[c][1].id] = snap[c][1]

\* ------------------------------------------------------------------- C4
\* the changes of Status the specification allows
AllowedTransitions ==
    {<<Pending, Processing>>, <<Processing, Processing>>, <<Processing, Done>>,
     <<Processing, Pending>>, <<Processing, Dead>>, <<Pending, Dead>>}

\* C4: every change of a row's Status is one of the allowed transitions; a
\* Done or Dead row changes in no field; and a row leaves the table only in
\* a step of the Cleaner (no caller of the Puller and no Push is involved).
C4_LifecycleTransitions ==
    [][\A i \in DOMAIN store :
        IF i \in DOMAIN store'
        THEN /\ store'[i].status # store[i].status =>
                    <<store[i].status, store'[i].status>> \in AllowedTransitions
             /\ store[i].status \in {Done, Dead} => store'[i] = store[i]
        ELSE call' = call /\ snap' = snap /\ used' = used /\ now' = now]_vars

\* a call on a Done or Dead row has just failed
C4_Witness ==
    \E c \in Callers :
        /\ call[c].op = "idle"
        /\ call[c].err \in {"ErrLockLost", "ErrCompleteFailed", "ErrJobLost"}
        /\ \E n \in DOMAIN snap[c] :
            /\ snap[c][n].id \in DOMAIN store
            /\ store[snap[c][n].id].status \in {Done, Dead}

\* ------------------------------------------------------------------- C5
\* C5: in every state of the table, a row has a LockedUntil exactly when it
\* is Processing, and no row is Unknown.
C5_LockedIffProcessing ==
    \A i \in DOMAIN store :
        /\ (store[i].lockedUntil # NULL) <=> (store[i].status = Processing)
        /\ store[i].status # Unknown

\* one row is under a lease while another was returned to Pending
C5_Witness ==
    \E i, j \in DOMAIN store :
        /\ store[i].status = Processing /\ store[i].lockedUntil # NULL
        /\ store[j].status = Pending /\ store[j].attempts > 0

\* ------------------------------------------------------------------- C6
\* C6: Attempts never decreases; a pushed row starts at 0; a Pull statement
\* adds exactly 1 to each row it claims and nothing to the others;
\* ExtendLock, Complete, Return and Kill leave every Attempts as it is.
C6_AttemptsMonotonic ==
    [][/\ \A i \in DOMAIN store' :
            IF i \in DOMAIN store
            THEN store'[i].attempts >= store[i].attempts
            ELSE store'[i].attempts = 0
       /\ \A c \in Callers : PullStep(c) =>
            \A i \in DOMAIN store :
                store'[i].attempts =
                    IF i \in Held(snap'[c]) THEN store[i].attempts + 1
                                            ELSE store[i].attempts
       /\ \A c \in Callers :
            (\E o \in {"ExtendLock", "Complete", "Return", "Kill"} : ExecStep(c, o)) =>
                \A i \in DOMAIN store : store'[i].attempts = store[i].attempts]_vars

\* a row was claimed twice and then completed
C6_Witness ==
    \E i \in DOMAIN store : store[i].attempts = 2 /\ store[i].status = Done
\* ------------------------------------------------------------------- C7
\* C7: a row that a Pull claimed and nothing touched since is claimable
\* again by a Pull whose now is after its LockedUntil: it is eligible, it is
\* returned when the batch has room for every eligible row, and when it is
\* returned it is Processing with Attempts one higher (2 after the second
\* claim) and LockedUntil = now + the new lock.
C7_LeaseExpiryRedelivery ==
    [][\A c \in Callers : PullStep(c) =>
        \A i \in DOMAIN store :
            (FreshClaim(store[i]) /\ store[i].lockedUntil < call[c].now) =>
                /\ SpecEligible(store[i], call[c].now)
                /\ Cardinality({e \in DOMAIN store :
                        SpecEligible(store[e], call[c].now)}) <= call[c].batch
                    => i \in Held(snap'[c])
                /\ \A n \in DOMAIN snap'[c] : snap'[c][n].id = i =>
                    /\ snap'[c][n].status = Processing
                    /\ snap'[c][n].attempts = store[i].attempts + 1
                    /\ store[i].attempts = 1 => snap'[c][n].attempts = 2
                    /\ snap'[c][n].lockedUntil = call[c].now + call[c].d
                    /\ store'[i] = snap'[c][n]]_vars

\* the job one caller still holds from its claim was claimed again by another
\* Pull, after the lease of the first claim
C7_Witness ==
    \E p, q \in Callers :
        /\ p # q /\ call[p].op = "idle" /\ Executed(q)
        /\ \E n \in DOMAIN snap[p], m \in DOMAIN snap[q] :
            /\ snap[p][n].id = snap[q][m].id
            /\ FreshClaim(snap[p][n]) /\ snap[p][n].attempts = 1
            /\ snap[p][n].lockedUntil < call[q].now
            /\ snap[q][m].attempts = 2 /\ snap[q][m].status = Processing
            /\ snap[q][m].lockedUntil = call[q].now + call[q].d

C10_KillContract ==
    [][\A c \in Callers : ExecStep(c, "Kill") =>
        LET i == Target(c)
            k == call[c].k
            pre == i \in DOMAIN store /\ store[i].status \in {Pending, Processing}
        IN  /\ (call'[c].err = "nil") <=> pre
            /\ ~pre => call'[c].err = "ErrJobLost"
            /\ pre => /\ store'[i].status = Dead
                      /\ store'[i].lockedUntil = NULL
                      /\ store'[i].updatedAt = call[c].now
                      /\ store'[i].attempts = store[i].attempts
                      /\ store'[i].nextRunAt = store[i].nextRunAt
                      /\ snap'[c][k].status = Dead
                      /\ snap'[c][k].lockedUntil = NULL
                      /\ snap'[c][k].updatedAt = call[c].now]_vars

\* a Pending row that was never claimed was killed, and a later Kill of it
\* has failed
C10_Witness ==
    \E c \in Callers :
        /\ call[c].op = "idle" /\ call[c].err = "ErrJobLost"
        /\ \E n \in DOMAIN snap[c] :
            /\ snap[c][n].id \in DOMAIN store
            /\ store[snap[c][n].id].status = Dead
            /\ store[snap[c][n].id].attempts = 0
\* ------------------------------------------------------------------ C11
\* the lease duration a row's LockedUntil was set with: Pull and ExtendLock
\* write UpdatedAt = now and LockedUntil = now + lock together
PrevLock(row) == row.lockedUntil - row.updatedAt

Required(o) == IF o = "Kill" THEN {Pending, Processing} ELSE {Processing}

\* C12: when the row an ExtendLock, Complete, Return or Kill is about is
\* absent or not in a status the call requires, the call returns its error,
\* no row of the table changes and no caller's job changes.
C12_NoPartialEffect ==
    [][\A c \in Callers : \A o \in {"ExtendLock", "Complete", "Return", "Kill"} :
        (ExecStep(c, o) /\ ~(/\ Target(c) \in DOMAIN store
                             /\ store[Target(c)].status \in Required(o))) =>
            /\ call'[c].err \in {"ErrLockLost", "ErrCompleteFailed", "ErrJobLost"}
            /\ store' = store
            /\ snap' = snap]_vars

\* a Return of a row that is Pending has failed; the row and the caller's job
\* are as they were
C12_Witness ==
    \E c \in Callers :
        /\ call[c].op = "idle" /\ call[c].err = "ErrJobLost"
        /\ \E n \in DOMAIN snap[c] :
            /\ snap[c][n].id \in DOMAIN store
            /\ store[snap[c][n].id].status = Pending
            /\ toJob(store[snap[c][n].id]) = snap[c][n]

\* ------------------------------------------------------------------ C13
\* C13: an ExtendLock by a caller that claimed the job, for a row that another
\* Pull has claimed since (the row's Attempts is higher than that of the
\* caller's job), returns ErrLockLost and leaves the row, with the new
\* holder's lease, as it is.
C13_ExtendLockOwnership ==
    [][\A c \in Callers : ExecStep(c, "ExtendLock") =>
        LET i == Target(c)
            j == snap[c][call[c].k]
        IN  (/\ j.status = Processing /\ j.attempts >= 1
             /\ i \in DOMAIN store /\ store[i].attempts > j.attempts) =>
                /\ call'[c].err = "ErrLockLost"
                /\ store' = store]_vars

\* ------------------------------------------------------------------ C14
\* C14: a Push of message i with a delay adds exactly the row i, with Status
\* = Pending, Attempts = 0, LockedUntil = null, CreatedAt = UpdatedAt = now
\* and NextRunAt = now + delay; every other row and every caller's job stay
\* as they are.
C14_PushCreatesPending ==
    [][last'.op = "Push" =>
        LET i == last'.a
        IN  /\ i \notin DOMAIN store
            /\ DOMAIN store' = DOMAIN store \cup {i}
            /\ store'[i].id = i
            /\ store'[i].status = Pending
            /\ store'[i].attempts = 0
            /\ store'[i].lockedUntil = NULL
            /\ store'[i].createdAt = now
            /\ store'[i].updatedAt = now
            /\ store'[i].nextRunAt = now + last'.b
            /\ \A j \in DOMAIN store : store'[j] = store[j]
            /\ snap' = snap /\ call' = call
            /\ last'.err = "nil"]_vars

\* a second message was pushed with a delay, after the clock had advanced,
\* while the first one was Processing
C14_Witness ==
    /\ last.op = "Push" /\ last.b = 1 /\ now > 0
    /\ last.a \in DOMAIN store /\ store[last.a].nextRunAt = now + 1
    /\ \E j \in DOMAIN store : store[j].status = Processing

\* ------------------------------------------------------------------ C15
\* C15: no step removes a Pending or Processing row from the table, and a
\* Clean called with status Pending or Processing returns (0, ErrBadStatus)
\* and leaves the table as it is.
C15_CleanKeepsNonTerminal ==
    [][/\ \A i \in DOMAIN store :
            i \notin DOMAIN store' => store[i].status \in {Done, Dead}
       /\ (last'.op = "Clean" /\ last'.a \in {Pending, Processing}) =>
            /\ last'.err = "ErrBadStatus"
            /\ last'.count = 0
            /\ store' = store]_vars

\* Clean was called with status Processing while a row was Processing
C15_Witness ==
    /\ last.op = "Clean" /\ last.a = Processing /\ last.err = "ErrBadStatus"
    /\ \E i \in DOMAIN store : store[i].status = Processing

\* ------------------------------------------------------------------ C16
\* the rows the specification has Clean(status, before) delete
SpecCleaned(st, status, before) ==
    {i \in DOMAIN st :
        /\ status = Unknown => st[i].status \in {Done, Dead}
        /\ status # Unknown => st[i].status = status
        /\ before # NULL => st[i].updatedAt <= before}

Is(i, status) == i \in DOMAIN store /\ store[i].status = status

\* the handler has been started on job i at least n times
Delivered(i, n) == i \in DOMAIN store /\ calls[i] >= n

\* the step in which runner r leaves Worker.handle's decision
HandleStep(r) == rn[r].pc = "handle" /\ rn'[r].pc # "handle"

\* the step in which the driver's Pull statement claims job i
ClaimStep(i) ==
    /\ call[Poller].op = "Pull" /\ ~call[Poller].done /\ call'[Poller].done
    /\ i \in DOMAIN store /\ store'[i].attempts = store[i].attempts + 1

C18_KillSentinel ==
    [][\A r \in Runners :
          (HandleStep(r) /\ rn[r].err = "ErrKill") => call'[r].op = "Kill"]_vars

\* ------------------------------------------------------------------ C19
\* the handler fails on its first invocation and returns nil on the second
Flaky == handler(cfg.handler, 1) = "err" /\ handler(cfg.handler, 2) = "nil"

Failing == cfg.handler = "fail" /\ cfg.backoff.MaxRetries > 0

C21_RetriesExhausted ==
    \A n \in DOMAIN bk.out :
        /\ bk.out[n].ok = ~(bk.bc.MaxRetries > 0 /\ n > bk.bc.MaxRetries)
        /\ bk.bc.MaxRetries = 0 => bk.out[n].ok

\* next said ok for attempt = MaxRetries and not ok for the attempt after
C21_Witness ==
    /\ bk.bc.MaxRetries > 0
    /\ Len(bk.out) = bk.bc.MaxRetries + 1
    /\ bk.out[bk.bc.MaxRetries].ok
    /\ ~bk.out[bk.bc.MaxRetries + 1].ok

\* ------------------------------------------------------------------ C22
\* C22 as stated: with RandomizationFactor = 0 the delay of next does not
\* decrease from one attempt to the next, among the attempts for which ok is
\* TRUE, and never exceeds MaxInterval (for an InitialInterval that is not
\* negative).
C22_BackoffMonotonic ==
    (bk.bc.RandomizationFactor = 0 /\ bk.bc.InitialInterval >= 0) =>
        \A n \in DOMAIN bk.out :
            bk.out[n].ok =>
                /\ bk.out[n].delay <= bk.bc.MaxInterval
                /\ (n + 1 \in DOMAIN bk.out /\ bk.out[n + 1].ok) =>
                        bk.out[n].delay <= bk.out[n + 1].delay

\* C22 as amended: with RandomizationFactor = 0 the delay of next never
\* exceeds MaxInterval, and with Multiplier >= 1 and InitialInterval >= 0 as
\* well it does not decrease from one attempt to the next, among the
\* attempts for which ok is TRUE.
C22_BackoffMonotonicFromOne ==
    bk.bc.RandomizationFactor = 0 =>
        \A n \in DOMAIN bk.out :
            bk.out[n].ok =>
                /\ bk.out[n].delay <= bk.bc.MaxInterval
                /\ (/\ bk.bc.Multiplier >= 1 /\ bk.bc.InitialInterval >= 0
                    /\ n + 1 \in DOMAIN bk.out /\ bk.out[n + 1].ok) =>
                        bk.out[n].delay <= bk.out[n + 1].delay

\* a backoff that doubles from 1 to 2 and is clamped to MaxInterval = 3 next
C22_Witness ==
    /\ bk.bc.RandomizationFactor = 0 /\ bk.bc.Multiplier = 2
    /\ bk.bc.InitialInterval = 1 /\ bk.bc.MaxInterval = 3
    /\ Len(bk.out) >= 3
    /\ bk.out[1].delay = 1 /\ bk.out[2].delay = 2 /\ bk.out[3].delay = 3

\* ------------------------------------------------------------------ C23
\* C23: for the Worker and the CleanWorker, whatever the order of the Start
\* and Stop calls: a Start call on a started instance returns
\* ErrDoubleStarted and starts nothing, and on a stopped one it succeeds and
\* the instance is started; a Stop call on a stopped instance (one never
\* started too) returns ErrDoubleStopped and cancels nothing, and on a
\* started one it goes on to the shutdown and the instance is stopped.  So
\* of the calls that meet the same state one wins.  A context is cancelled
\* by a Stop call that won only.
C23_LifecycleGuard ==
    [][/\ life'.sc # life.sc =>
            IF lc = started
            THEN /\ last'.err = "ErrDoubleStarted"
                 /\ lc' = lc /\ pt' = pt /\ rn' = rn /\ in' = in
                 /\ life'.task = life.task /\ life'.pool = life.pool
            ELSE last'.err = "nil" /\ lc' = started
       /\ life'.tc # life.tc =>
            IF lc = stopped
            THEN /\ last'.err = "ErrDoubleStopped"
                 /\ lc' = lc /\ pt' = pt /\ rn' = rn
                 /\ life'.task = life.task /\ life'.pool = life.pool
                 /\ life'.stop = life.stop
            ELSE lc' = stopped /\ life'.stop = "task"
       /\ cw'.sc # cw.sc =>
            IF cw.lc = started
            THEN /\ last'.err = "ErrDoubleStarted"
                 /\ cw'.lc = cw.lc /\ cw'.task = cw.task /\ cw'.ctx = cw.ctx
            ELSE last'.err = "nil" /\ cw'.lc = started
       /\ cw'.tc # cw.tc =>
            IF cw.lc = stopped
            THEN /\ last'.err = "ErrDoubleStopped"
                 /\ cw'.lc = cw.lc /\ cw'.task = cw.task /\ cw'.ctx = cw.ctx
                 /\ cw'.stop = cw.stop
            ELSE cw'.lc = stopped /\ cw'.stop = "task"
       /\ (life'.task /\ ~life.task) => life.stop = "task"
       /\ (life'.pool /\ ~life.pool) => life.stop = "pool"
       /\ (cw'.ctx /\ ~cw.ctx) => cw.stop = "task"]_vars

\* both callers have called Start on the Worker, which is started, and the
\* second Stop call on the CleanWorker has just been refused
C23_Witness ==
    /\ life.sc = Starters /\ lc = started
    /\ cw.sc # {} /\ cw.tc = Stoppers /\ cw.lc = stopped
    /\ last = Made("CleanWorker.Stop", 0, 0, 0, "ErrDoubleStopped")

\* ------------------------------------------------------------------ C24
\* C24: Start starts a Worker once: after a Start and a Stop, a further
\* Start on the same Worker does not start the driver and the runners again.
C24_StartOnce ==
    [][lc = stopped /\ lc' = started => ~life.ran]_vars

\* ------------------------------------------------------------------ C25
\* C25: once Stop has returned nil, and the Worker has not been started
\* again, no invocation of the handler begins.
C25_NoBeginAfterStop ==
    [][life.ret = "nil" /\ lc = stopped => calls' = calls]_vars

\* ------------------------------------------------------------------ C26
\* an invocation of the handler is executing
Executing ==
    \/ \E r \in Runners : rn[r].h = "running"
    \/ \E k \in DOMAIN orph : orph[k].h = "running"

\* C26: at the moment Stop returns nil no invocation of the handler that
\* this Worker started is still executing.
C26_StopWaits ==
    [][life.stop = "wait" /\ life'.stop = "none" /\ life'.ret = "nil" => ~Executing]_vars

\* ------------------------------------------------------------------ C27
\* C27: Stop on a started Worker returns nil only when the polling driver
\* and every runner have ended; a Stop that returns while one of them is
\* still there returns ErrStopTimeout; and once Stop has cancelled both
\* contexts they all end, the handlers returning (the driver is not held
\* by a full channel).
C27_StopJoins ==
    /\ [][life.stop = "wait" /\ life'.stop = "none" =>
            /\ life'.ret = "nil" =>
                    pt.pc = "exit" /\ \A r \in Runners : rn[r].pc = "exit"
            /\ (pt.pc # "exit" \/ \E r \in Runners : rn[r].pc # "exit") =>
                    life'.ret = "ErrStopTimeout"]_vars
    /\ [](life.pool => <>(pt.pc = "exit" /\ \A r \in Runners : rn[r].pc = "exit"))

\* Stop has returned nil on a Worker that had delivered a job
C27_Witness ==
    /\ life.ret = "nil" /\ lc = stopped
    /\ pt.pc = "exit" /\ \A r \in Runners : rn[r].pc = "exit"
    /\ \E i \in Work : calls[i] >= 1

\* ------------------------------------------------------------------ C28
\* C28: once Stop has cancelled the context of the polling driver, the
\* driver issues no Pull call.
C28_NoPullAfterCancel ==
    [][life.task => ~(pt.pc = "tick" /\ pt'.pc = "pull")]_vars

\* ------------------------------------------------------------------ C29
\* C29: when the handler panics, the runner it was started for goes back to
\* the channel for further jobs, the polling driver and the other runners go
\* on, and no Puller transition is made for the job.
C29_PanicRecovered ==
    [][\A r \in Runners :
          (rn[r].h = "running" /\ rn[r].res = "panic" /\ rn'[r].h # "running") =>
              /\ rn'[r].pc = "recv"
              /\ pt' = pt
              /\ \A q \in Runners \ {r} : rn'[q] = rn[q]
              /\ store' = store]_vars

\* ------------------------------------------------------------------ C30
\* job i is neither Done nor Dead
InFlight(i) == i \in DOMAIN store /\ store[i].status \in {Pending, Processing}

\* job i has been claimed as often as a run goes
Capped(i) == i \in DOMAIN store /\ store[i].attempts >= MaxAttempts

C31_OldestDueFirst ==
    [][\A c \in Callers : PullStep(c) =>
          LET elig == {i \in DOMAIN store : SpecEligible(store[i], call[c].now)}
              got == Held(snap'[c])
          IN  /\ got \subseteq elig
              /\ Len(snap'[c]) = Cardinality(got)
              /\ Cardinality(got) = Min(call[c].batch, Cardinality(elig))
              /\ \A g \in got, u \in elig \ got :
                    store[g].nextRunAt <= store[u].nextRunAt
              /\ \A m, n \in DOMAIN snap'[c] :
                    m < n => snap'[c][m].nextRunAt <= snap'[c][n].nextRunAt]_vars

\* ------------------------------------------------------------------ C32
\* the errors handleOrExtend returns from a failed ExtendLock
ExtendErrors == {"ErrLockLost", "canceled"}

\* C32: a runner whose ExtendLock failed, with ErrLockLost or with another
\* error, abandons the job: it goes back to the channel without a Complete,
\* Return or Kill call.
C32_AbandonOnExtendError ==
    [][\A r \in Runners :
          (HandleStep(r) /\ rn[r].err \in ExtendErrors) =>
              rn'[r].pc = "recv" /\ call'[r] = call[r]]_vars

\* ------------------------------------------------------------------ C33
\* C33: while the handler runs on a job and the runner's lease timer is not
\* overdue (every ExtendLock so far has succeeded, the next is not yet
\* due), the job is Processing and its lease has not run out, so that no
\* Pull can claim it.
C33_LeaseHeldWhileRunning ==
    \A r \in Runners :
        (rn[r].pc = "select" /\ rn[r].h = "running" /\ now <= rn[r].timer) =>
            /\ Is(snap[r][1].id, Processing)
            /\ store[snap[r][1].id].lockedUntil >= now

\* ------------------------------------------------------------------ C34
\* C34: the dispatch channel never holds more than Queue jobs; a driver
\* that is in Push on a full channel stays there, and issues no Pull, until
\* a slot opens or the context of the pool is cancelled; and when it gives
\* up the Push on the cancellation the job is not sent and no row changes,
\* so that the jobs of the batch that are left stay as their claim left
\* them.
C34_BoundedDispatch ==
    /\ [](Len(in) <= cfg.queue)
    /\ [][/\ (pt.pc = "push" /\ Len(in) = cfg.queue /\ ~life.pool) => pt' = pt
          /\ (pt.pc = "push" /\ pt'.pc # "push" /\ in' = in) =>
                /\ life.pool
                /\ pt'.pc = "tick"
                /\ store' = store /\ call' = call]_vars

\* the driver gave up a Push on a full channel: every goroutine has ended,
\* the channel still holds the copy of an earlier claim, and the claim the
\* driver made last was handed to no handler, its row still Processing
C34_Witness ==
    /\ life.pool /\ pt.pc = "exit" /\ orph = <<>>
    /\ \A r \in Runners : rn[r].pc = "exit"
    /\ Len(in) = cfg.queue
    /\ \E i \in Work :
          /\ Is(i, Processing)
          /\ snap[Poller] # <<>> /\ snap[Poller][1].id = i
          /\ snap[Poller][1].attempts = store[i].attempts
          /\ in[1].id = i /\ in[1].attempts < store[i].attempts

\* ------------------------------------------------------------------ C35
\* the invocations of the handler that are executing: those a runner waits
\* for and those of the goroutines that handleOrExtend left behind
Invocations ==
    Cardinality({r \in Runners : rn[r].h = "running"})
        + Cardinality({k \in DOMAIN orph : orph[k].h = "running"})

\* C35: at every moment at most Concurrency invocations of the handler are
\* executing in one Worker.
C35_AtMostConcurrency == Invocations <= Cardinality(Runners)

\* ------------------------------------------------------------------ C36
\* the Puller calls that end a delivery, and the errors they fail with
Finals == {"Complete", "Return", "Kill"}
FinalErrors == {"ErrCompleteFailed", "ErrJobLost", "canceled"}

\* C36: a runner issues Complete, Return or Kill only in Worker.handle, to
\* which a delivery comes once, from handleOrExtend; whatever the call
\* returns, the runner then has no job and is back at the channel, and it
\* makes no Puller call until it has received a job again.
C36_OneFinalCall ==
    [][\A r \in Runners :
          /\ (call'[r].op \in Finals /\ call'[r] # call[r]) =>
                rn[r].pc = "handle" /\ rn'[r].pc = "final"
          /\ (rn'[r].pc = "handle" /\ rn[r].pc # "handle") =>
                rn[r].pc \in {"select", "extend"}
          /\ (rn[r].pc = "handle" /\ rn'[r].pc # "handle") =>
                rn'[r].pc \in {"final", "recv", "crashed"}
          /\ (rn[r].pc = "final" /\ rn'[r] # rn[r]) =>
                /\ rn'[r] \in {Free("recv"), Free("crashed")}
                /\ rn'[r].pc = "recv" => call[r].op \in Finals /\ call'[r].op = "idle"
          /\ (rn[r].pc = "recv" /\ rn'[r].pc \in {"recv", "exit"}) =>
                call'[r] = call[r]]_vars

\* a runner whose Complete, Return or Kill has failed is back at the channel
C36_Witness ==
    \E r \in Runners :
        /\ rn[r] = Free("recv")
        /\ call[r].op = "idle" /\ call[r].err \in FinalErrors

\* ------------------------------------------------------------------ C37
\* the driver's Pull statement fails in the storage: Scan returns an error
\* and the statement has changed no row
WorkerPullError ==
    /\ pt.pc = "pull" /\ ~call[Poller].done
    /\ call' = [call EXCEPT ![Poller] = [@ EXCEPT !.done = TRUE, !.err = "storage"]]
    /\ Kept
    /\ UNCHANGED <<now, store, used, snap, ops, lc, cfg, pt, in, rn, calls, reclaimed>>

\* a Worker whose storage may fail any Pull
FaultInit ==
    /\ Built({})
    /\ bk = [bc |-> ZeroBackoff, out |-> <<>>]
    /\ cfg \in {NewWorker(h, bc) : h \in {"ok", "flaky"}, bc \in Backoffs}

FaultNext == WorkerNext \/ WorkerPullError

FaultSpec ==
    /\ FaultInit
    /\ [][FaultNext]_vars
    /\ WF_vars(WTick)
    /\ WF_vars(DriverStep)
    /\ \A r \in Runners : WF_vars(RunnerStep(r))
    /\ \A r \in Runners : WF_vars(HandlerBegin(r) \/ HandlerReturn(r))
    /\ WF_vars(\E k \in 1..MaxAttempts : OrphanBegin(k) \/ OrphanReturn(k))

\* the driver's Pull has returned an error to Worker.pull
PullFailed == pt.pc = "pull" /\ call[Poller].done /\ call[Poller].err # "nil"

\* C37: when the driver's Pull fails, Worker.pull returns without sending a
\* job to the pool and without a statement on the store, the driver waits
\* for its next tick, and on a later tick it calls Pull again (unless a
\* panic of the handler has ended the process).
C37_PullFailureAbandonsTick ==
    /\ [][PullFailed /\ pt' # pt /\ ~Crashed' =>
              /\ pt' = Driver("tick", 0)
              /\ in' = in /\ store' = store]_vars
    /\ [](PullFailed => <>(Crashed \/ (pt.pc = "pull" /\ ~call[Poller].done)))

\* the tick of a failed Pull is abandoned and the driver waits for the next
C37_Witness ==
    /\ lc = started /\ pt.pc = "tick"
    /\ call[Poller] = Idle("storage")
    /\ \E i \in Work : Is(i, Pending)

\* ------------------------------------------------------------------ C38
\* the owner of the context that was passed to Start cancels it: the
\* contexts that pool.Start and pullTask.Start derived from it are cancelled
\* with it, and nothing else of the Worker is touched
CancelStart ==
    /\ lc = started /\ ~life.par /\ ~Crashed
    /\ life' = [life EXCEPT !.task = TRUE, !.pool = TRUE, !.par = TRUE]
    /\ last' = NoCall
    /\ UNCHANGED <<now, store, used, call, snap, ops, lc, cfg, pt, in, rn, calls,
                   reclaimed, orph, bk, cw>>

\* Start at any time, one Stop call, and a cancellation of Start's context
CancelNext ==
    \/ WorkerNext
    \/ \E c \in Starters : StartAgain(c)
    \/ Stop(1)
    \/ StopAgain(1)
    \/ Shutdown
    \/ CancelStart

CancelSpec == LifeInit /\ [][CancelNext]_vars

\* a cancellation of Start's context leaves the lifecycle state started, so
\* that a Start is refused with ErrDoubleStarted and starts nothing, and a
\* Stop is let through to the join, from which it returns nil only when the
\* driver and the runners have ended
C38_StateKept ==
    [][/\ (~life.par /\ life'.par) => lc = started /\ lc' = started
       /\ (life.par /\ lc = started /\ last'.op = "Start") =>
              last'.err = "ErrDoubleStarted" /\ UNCHANGED <<lc, pt, rn, in>>
       /\ (life.par /\ lc = started /\ life'.tc # life.tc) => life'.stop = "task"
       /\ (life.par /\ life.stop = "wait" /\ life'.stop = "none" /\ life'.ret = "nil") =>
              Combine]_vars

\* C38: once the context passed to Start is cancelled, without a Stop, the
\* driver issues no Pull call; and the cancellation does not replace Stop:
\* the state stays started, a later Start is refused and a later Stop joins.
C38_CancelIsNotStop ==
    /\ [][(life.par /\ lc = started) => ~(pt.pc = "tick" /\ pt'.pc = "pull")]_vars
    /\ C38_StateKept

\* ------------------------------------------------------------------ C39
\* Worker.Start, statement by statement: tryStart
StartTry(c) ==
    /\ Turn(c, life.sc, Starters)
    /\ tryStart(lc).err = "nil"
    /\ ~Stopping /\ ~Crashed /\ life.init = "none"
    /\ lc' = tryStart(lc).state
    /\ life' = [life EXCEPT !.init = "pool", !.sc = @ \cup {c}]
    /\ last' = NoCall
    /\ UNCHANGED <<now, store, used, call, snap, ops, cfg, pt, in, rn, calls,
                   reclaimed, orph, bk, cw>>

\* w.pool.Start(ctx, w.handle): a new context, the channel and the runners
StartPool ==
    /\ life.init = "pool" /\ ~Crashed
    /\ in' = <<>>
    /\ rn' = [r \in Runners |-> Free("recv")]
    /\ life' = [life EXCEPT !.pool = FALSE, !.init = "task"]
    /\ last' = NoCall
    /\ UNCHANGED <<now, store, used, call, snap, ops, lc, cfg, pt, calls,
                   reclaimed, orph, bk, cw>>

\* w.pullTask.Start(ctx, w.pull, w.interval): a new context, done and
\* cancel, and the driver; Start returns nil
StartTask ==
    /\ life.init = "task" /\ ~Crashed
    /\ pt' = Driver("tick", 0)
    /\ life' = [life EXCEPT !.task = FALSE, !.init = "none", !.ran = TRUE]
    /\ last' = Made("Start", 0, 0, 0, "nil")
    /\ UNCHANGED <<now, store, used, call, snap, ops, lc, cfg, in, rn, calls,
                   reclaimed, orph, bk, cw>>

\* a Worker over a queue that stays empty, one goroutine that calls Start
\* and one that calls Stop, each statement of Start a step of its own
RaceNext ==
    \/ StartTry(1)
    \/ StartPool
    \/ StartTask
    \/ Stop(1)
    \/ StopAgain(1)
    \/ StopTask
    \/ StopPool
    \/ StopDone
    \/ StopTimeout
    \/ WTick
    \/ WorkerPull
    \/ WorkerPullExec
    \/ WorkerPullDone
    \/ TaskExit
    \/ \E r \in Runners : WorkerExit(r)

RaceSpec == LifeInit /\ [][RaceNext]_vars

\* C39: a Stop that wins the compare-and-set from started to stopped comes
\* when no Start is between its tryStart and the end of its pool.Start and
\* pullTask.Start, so that doStop finds the cancel functions and done set.
C39_StopFindsInitialised ==
    [][(lc = started /\ lc' = stopped) =>
           life.init = "none" /\ pt.pc # "off" /\ \A r \in Runners : rn[r].pc # "off"]_vars

\* ------------------------------------------------------------------ C40
\* C40: when Stop is initiated while a handler is executing, and the
\* handler returns nil while the Stop call still waits, the runner's
\* Complete takes effect: the step of the statement leaves the row Done.
C40_FoldedDuringShutdown ==
    [][\A r \in Runners :
          (/\ rn[r].pc = "final" /\ rn'[r].pc = "recv"
           /\ life.stop = "wait"
           /\ <<r, snap[r][1].attempts>> \in life.held
           /\ call[r].op = "Complete") =>
              /\ call'[r].err = "nil"
              /\ store'[snap[r][1].id].status = Done]_vars
====
